---- MODULE Spec2Model ----
(***************************************************************************)
(* Model of src/lib/axios-client.ts: base-URL resolution at module load,   *)
(* construction of the shared axios client, and the response interceptors. *)
(* JavaScript strings whose characters matter (the environment string and  *)
(* the base URL) are sequences of one-character strings.                   *)
(***************************************************************************)
EXTENDS Integers, Sequences, FiniteSets, TLC

\* ------------------------------------------------------------------ bounds
MaxPad == 1
MaxBody == 3
NumRequests == 2

\* ------------------------------------------------- strings of getBaseURL
Whitespace == {" ", "\t"}

HTTP == <<"h", "t", "t", "p", ":", "/", "/">>

HTTPS == <<"h", "t", "t", "p", "s", ":", "/", "/">>

LOCALHOST == <<"h", "t", "t", "p", ":", "/", "/", "l", "o", "c", "a", "l", "h", "o", "s", "t", ":", "4", "0", "0", "0", "/", "a", "p", "i">>

\* the value of import.meta.env.VITE_API_BASE_URL: undefined, or a string
Undefined == [defined |-> FALSE, chars |-> <<>>]

Str(s) == [defined |-> TRUE, chars |-> s]

\* JavaScript truthiness of a string-or-undefined value: `if (envURL)`
TruthyEnv(e) == e.defined /\ e.chars # <<>>

RECURSIVE TrimStart(_)
TrimStart(s) ==
  IF s # <<>> /\ Head(s) \in Whitespace THEN TrimStart(Tail(s)) ELSE s

RECURSIVE TrimEnd(_)
TrimEnd(s) ==
  IF s # <<>> /\ s[Len(s)] \in Whitespace
  THEN TrimEnd(SubSeq(s, 1, Len(s) - 1))
  ELSE s

\* String.prototype.trim
Trim(s) == TrimEnd(TrimStart(s))

\* String.prototype.startsWith
StartsWith(s, p) == Len(s) >= Len(p) /\ SubSeq(s, 1, Len(p)) = p

\* mutant: only https:// is recognised as a protocol
HasProtocolHttpsOnly(s) == StartsWith(s, HTTPS)

HasProtocol(s) == StartsWith(s, HTTP) \/ StartsWith(s, HTTPS)

RECURSIVE StripAllTrailingSlashes(_)
\* mutant: s.replace(/\/+$/, '') strips every trailing slash
StripAllTrailingSlashes(s) ==
  IF s # <<>> /\ s[Len(s)] = "/"
  THEN StripAllTrailingSlashes(SubSeq(s, 1, Len(s) - 1))
  ELSE s

\* s.replace(/\/$/, ''): at most one slash, only at the very end
StripTrailingSlash(s) ==
  IF s # <<>> /\ s[Len(s)] = "/" THEN SubSeq(s, 1, Len(s) - 1) ELSE s

\* mutant: the two protocols swapped
ProtocolSwapped(PROD) == IF PROD THEN HTTP ELSE HTTPS

Protocol(PROD) == IF PROD THEN HTTPS ELSE HTTP

\* mutant: the production test of the fallback inverted
FallbackInverted(PROD) ==
  IF ~PROD
  THEN [url |-> <<>>, diagnostic |-> TRUE]
  ELSE [url |-> LOCALHOST, diagnostic |-> FALSE]

\* the fallback when VITE_API_BASE_URL is not set
Fallback(PROD) ==
  IF PROD
  THEN [url |-> <<>>, diagnostic |-> TRUE]
  ELSE [url |-> LOCALHOST, diagnostic |-> FALSE]

\* getBaseURL: the returned string and whether console.error was called
getBaseURL(envURL, PROD) ==
  IF TruthyEnv(envURL)
  THEN LET trimmedURL == Trim(envURL.chars) IN
       IF HasProtocol(trimmedURL)
       THEN [url |-> StripTrailingSlash(trimmedURL), diagnostic |-> FALSE]
       ELSE [url |-> StripTrailingSlash(Protocol(PROD) \o trimmedURL),
             diagnostic |-> FALSE]
  ELSE Fallback(PROD)

\* ------------------------------------------------ JavaScript values
\* a primitive JavaScript value: its type tag and its printed form
JSVal(t, v) == [t |-> t, v |-> v]

JSUndefined == JSVal("undefined", "")

JSString(v) == JSVal("string", v)

\* ToBoolean: "", 0, NaN, false, null and undefined are falsy
Truthy(x) ==
  CASE x.t = "string" -> x.v # ""
    [] x.t = "number" -> x.v \notin {"0", "NaN"}
    [] x.t = "boolean" -> x.v = "true"
    [] OTHER -> FALSE

\* a response body: undefined, null, a text, or an object with or without
\* an errorCode field
Body(kind, text, has, code) ==
  [kind |-> kind, text |-> text, hasErrorCode |-> has, errorCode |-> code]

NoBody == Body("undefined", "", FALSE, JSUndefined)

NullBody == Body("null", "", FALSE, JSUndefined)

TextBody(s) == Body("string", s, FALSE, JSUndefined)

ObjectBody == Body("object", "", FALSE, JSUndefined)

CodedBody(c) == Body("object", "", TRUE, c)

\* data?.errorCode
ErrorCodeField(data) ==
  IF data.kind = "object" /\ data.hasErrorCode THEN data.errorCode
  ELSE JSUndefined

\* mutant: data?.errorCode ?? "UNKNOWN_ERROR"
ErrorCodeOfNullish(data) ==
  IF ErrorCodeField(data).t \notin {"undefined", "null"}
  THEN ErrorCodeField(data)
  ELSE JSString("UNKNOWN_ERROR")

\* data?.errorCode || "UNKNOWN_ERROR"
ErrorCodeOf(data) ==
  IF Truthy(ErrorCodeField(data)) THEN ErrorCodeField(data)
  ELSE JSString("UNKNOWN_ERROR")

NetworkFallbackMessage == "Network error. Please check your API configuration."

\* mutant: error.message ?? 'Network error. ...'
MessageOfNullish(error) ==
  IF error.message.t \notin {"undefined", "null"} THEN error.message
  ELSE JSString(NetworkFallbackMessage)

\* error.message || 'Network error. Please check your API configuration.'
MessageOf(error) ==
  IF Truthy(error.message) THEN error.message
  ELSE JSString(NetworkFallbackMessage)

\* mutant: the status compared with 403
IsUnauthorizedWrongStatus(data, status) ==
  data.kind = "string" /\ data.text = "Unauthorized" /\ status = 403

\* data === "Unauthorized" && status === 401
IsUnauthorized(data, status) ==
  data.kind = "string" /\ data.text = "Unauthorized" /\ status = 401

\* the failure object axios hands to the rejected handler
Failure(has, status, data, message) ==
  [hasResponse |-> has, status |-> status, data |-> data, message |-> message]

NoFailure == Failure(FALSE, 0, NoBody, JSUndefined)

\* customError: the spread of error plus errorCode (and message, branch 1)
Custom(error, message, code) ==
  [hasResponse |-> error.hasResponse, status |-> error.status,
   data |-> error.data, message |-> message, errorCode |-> code]

NoCustom == Custom(NoFailure, JSUndefined, JSUndefined)

Response(status, data) == [status |-> status, data |-> data]

NoResponse == Response(0, NoBody)

\* mutant: the handler returns after the redirect instead of rejecting
OnRejectedResultSwallowing(error) ==
  IF ~error.hasResponse
  THEN [custom |-> Custom(error, MessageOf(error), JSString("NETWORK_ERROR")),
        logs |-> TRUE, navigates |-> FALSE, settles |-> "rejected"]
  ELSE [custom |-> Custom(error, error.message, ErrorCodeOf(error.data)),
        logs |-> FALSE,
        navigates |-> IsUnauthorized(error.data, error.status),
        settles |-> IF IsUnauthorized(error.data, error.status)
                    THEN "fulfilled" ELSE "rejected"]

\* the rejected handler: what it rejects with, what it logs, where it navigates
OnRejectedResult(error) ==
  IF ~error.hasResponse
  THEN [custom |-> Custom(error, MessageOf(error), JSString("NETWORK_ERROR")),
        logs |-> TRUE, navigates |-> FALSE, settles |-> "rejected"]
  ELSE [custom |-> Custom(error, error.message, ErrorCodeOf(error.data)),
        logs |-> FALSE,
        navigates |-> IsUnauthorized(error.data, error.status),
        settles |-> "rejected"]

\* the fulfilled handler: return response
OnFulfilledResult(response) == response

\* ------------------------------------------------------- input domains
\* "api.example.com"
ExampleBare == <<"a", "p", "i", ".", "e", "x", "a", "m", "p", "l", "e", ".", "c", "o", "m">>

Pads == UNION {[1..n -> Whitespace] : n \in 0..MaxPad}

Prefixes == {<<>>, HTTP, HTTPS}

\* "https://api.example.com/"
ExampleWithSlash == HTTPS \o ExampleBare \o <<"/">>

BodyChars == {"a", "/", " "}

Bodies == UNION {[1..n -> BodyChars] : n \in 0..MaxBody}

EnvStrings ==
  {Undefined, Str(ExampleBare), Str(ExampleWithSlash)}
    \cup {Str(p \o x \o b) : p \in Pads, x \in Prefixes, b \in Bodies}

ErrorCodes ==
  {JSString("VALIDATION_FAILED"), JSString(""), JSVal("null", ""),
   JSVal("number", "42"), JSVal("number", "0")}

ErrorBodies ==
  {NullBody, TextBody("Unauthorized"), TextBody("Forbidden"), ObjectBody}
    \cup {CodedBody(c) : c \in ErrorCodes}

ErrorStatuses == {401, 500}

SuccessResponses ==
  {Response(200, ObjectBody), Response(200, TextBody("Unauthorized"))}

Messages == {JSUndefined, JSString(""), JSString("Network Error")}

timeout == 10000

TimeoutMessage == JSString("timeout of 10000ms exceeded")

Requests == 1..NumRequests

\* ---------------------------------------------------------------- state
VARIABLES env, pc, baseURL, console, options, requests, href

vars == <<env, pc, baseURL, console, options, requests, href>>

LogEntry(level, tag, url, msg) ==
  [level |-> level, tag |-> tag, url |-> url, msg |-> msg]

MissingConfig == LogEntry("error", "VITE_API_BASE_URL is not set", <<>>, JSUndefined)

IdleRequest ==
  [state |-> "idle", sends |-> 0, settles |-> 0, response |-> NoResponse,
   error |-> NoFailure, returned |-> NoResponse, custom |-> NoCustom]

\* baseURL || '(relative URLs)'
LoggedURL(url) == IF url # <<>> THEN url ELSE <<"(", "r", "e", "l", ")">>

\* options: baseURL || undefined, withCredentials, timeout
Options(url) ==
  [baseURL |-> IF url # <<>> THEN Str(url) ELSE Undefined,
   withCredentials |-> TRUE, timeout |-> timeout]

NoOptions == [baseURL |-> Undefined, withCredentials |-> FALSE, timeout |-> 0]

\* ------------------------------------------------- module evaluation
\* const baseURL = getBaseURL();
ResolveBaseURL ==
  /\ pc = "load"
  /\ LET r == getBaseURL(env.VITE_API_BASE_URL, env.PROD) IN
       /\ baseURL' = r.url
       /\ console' = IF r.diagnostic THEN Append(console, MissingConfig)
                     ELSE console
  /\ pc' = "resolved"
  /\ UNCHANGED <<env, options, requests, href>>

\* if (import.meta.env.DEV) console.log(...)
LogBaseURL ==
  /\ pc = "resolved"
  /\ console' = IF env.DEV
                THEN Append(console,
                       LogEntry("log", "API Base URL:", LoggedURL(baseURL), JSUndefined))
                ELSE console
  /\ pc' = "logged"
  /\ UNCHANGED <<env, baseURL, options, requests, href>>

\* const API = axios.create(options); interceptors registered
CreateClient ==
  /\ pc = "logged"
  /\ options' = Options(baseURL)
  /\ pc' = "ready"
  /\ UNCHANGED <<env, baseURL, console, requests, href>>

Env(u, p, d) == [VITE_API_BASE_URL |-> u, PROD |-> p, DEV |-> d]

InitLoad ==
  /\ env \in {Env(u, p, d) : u \in EnvStrings, p \in BOOLEAN, d \in BOOLEAN}
  /\ pc = "load"
  /\ baseURL = <<>>
  /\ console = <<>>
  /\ options = NoOptions
  /\ requests = [r \in Requests |-> IdleRequest]
  /\ href = "/app"

NextLoad == ResolveBaseURL \/ LogBaseURL \/ CreateClient

SpecLoad == InitLoad /\ [][NextLoad]_vars

\* ------------------------------------------------- requests in flight
\* a caller issues a request through API
Send(r) ==
  /\ pc = "ready"
  /\ requests[r].state = "idle"
  /\ requests' = [requests EXCEPT ![r].state = "pending",
                                  ![r].sends = @ + 1]
  /\ UNCHANGED <<env, pc, baseURL, console, options, href>>

\* the transport delivers a 2xx response
Respond(r) ==
  /\ requests[r].state = "pending"
  /\ \E resp \in SuccessResponses :
       requests' = [requests EXCEPT ![r].state = "responded",
                                    ![r].response = resp]
  /\ UNCHANGED <<env, pc, baseURL, console, options, href>>

\* the transport fails: an error response, or no response at all
Fail(r) ==
  /\ requests[r].state = "pending"
  /\ \E e \in {Failure(TRUE, s, d, JSString("Request failed")) :
                 s \in ErrorStatuses, d \in ErrorBodies}
              \cup {Failure(FALSE, 0, NoBody, m) : m \in Messages} :
       requests' = [requests EXCEPT ![r].state = "failed", ![r].error = e]
  /\ UNCHANGED <<env, pc, baseURL, console, options, href>>

\* no response within options.timeout milliseconds
Timeout(r) ==
  /\ requests[r].state = "pending"
  /\ options.timeout = timeout
  /\ requests' = [requests EXCEPT
                    ![r].state = "failed",
                    ![r].error = Failure(FALSE, 0, NoBody, TimeoutMessage)]
  /\ UNCHANGED <<env, pc, baseURL, console, options, href>>

\* (response) => { return response; }
OnFulfilled(r) ==
  /\ requests[r].state = "responded"
  /\ requests' = [requests EXCEPT
                    ![r].state = "fulfilled",
                    ![r].settles = @ + 1,
                    ![r].returned = OnFulfilledResult(requests[r].response)]
  /\ UNCHANGED <<env, pc, baseURL, console, options, href>>

\* async (error) => { ... return Promise.reject(customError); }
OnRejected(r) ==
  /\ requests[r].state = "failed"
  /\ LET error == requests[r].error
         res == OnRejectedResult(error) IN
       /\ console' = IF res.logs
                     THEN Append(console,
                            LogEntry("error", "Network error:", <<>>, error.message))
                     ELSE console
       /\ href' = IF res.navigates THEN "/" ELSE href
       /\ requests' = [requests EXCEPT
                         ![r].state = res.settles,
                         ![r].settles = @ + 1,
                         ![r].custom = res.custom]
  /\ UNCHANGED <<env, pc, baseURL, options>>

\* the state after the module has been evaluated in a development build
\* with no VITE_API_BASE_URL
DevEnv == Env(Undefined, FALSE, TRUE)

Init ==
  /\ env = DevEnv
  /\ pc = "ready"
  /\ baseURL = getBaseURL(DevEnv.VITE_API_BASE_URL, DevEnv.PROD).url
  /\ console = <<LogEntry("log", "API Base URL:", LoggedURL(baseURL), JSUndefined)>>
  /\ options = Options(baseURL)
  /\ requests = [r \in Requests |-> IdleRequest]
  /\ href = "/app"

Next ==
  \E r \in Requests :
    \/ Send(r)
    \/ Respond(r)
    \/ Fail(r)
    \/ Timeout(r)
    \/ OnFulfilled(r)
    \/ OnRejected(r)

Spec == Init /\ [][Next]_vars

TypeOK ==
  /\ pc \in {"load", "resolved", "logged", "ready"}
  /\ href \in {"/app", "/"}
  /\ \A r \in Requests :
       requests[r].state \in
         {"idle", "pending", "responded", "failed", "fulfilled", "rejected"}

\* ------------------------------------------- properties: interceptor
\* the rejected handler has just settled request r
Handled(r) == requests[r].state = "failed" /\ requests'[r].state # "failed"

IsRejected(r) == requests[r].state = "rejected"

UnknownError == JSString("UNKNOWN_ERROR")

\* C1: every error that reaches a caller through the rejected handler
\* carries an errorCode that is a non-empty text, whatever the failure
\* (no response, any status, any body).
C1_NonEmptyTextErrorCode ==
  \A r \in Requests :
    IsRejected(r) =>
      /\ requests[r].custom.errorCode.t = "string"
      /\ requests[r].custom.errorCode.v # ""

\* C2: a failure whose response has status 401 and the text body
\* "Unauthorized" navigates to "/" and is still rejected, with the errorCode
\* "UNKNOWN_ERROR" (a text body has no errorCode field); the redirect does
\* not replace the rejection.
C2_UnauthorizedRedirectsAndRejects ==
  [][\A r \in Requests :
       (/\ Handled(r)
        /\ requests[r].error.hasResponse
        /\ requests[r].error.status = 401
        /\ requests[r].error.data = TextBody("Unauthorized"))
       => /\ href' = "/"
          /\ requests'[r].state = "rejected"
          /\ requests'[r].custom.errorCode = UnknownError]_vars

C2_Witness ==
  \E r \in Requests :
    /\ IsRejected(r)
    /\ requests[r].error.hasResponse
    /\ requests[r].error.status = 401
    /\ requests[r].error.data = TextBody("Unauthorized")
    /\ href = "/"
    /\ requests[r].custom.errorCode = UnknownError

\* C3: a failure with no response (a timeout included) is rejected with
\* errorCode "NETWORK_ERROR" and with the failure's message, or the fixed
\* fallback text when the failure has no (or an empty) message, and the
\* handler does not navigate.
C3_NetworkErrorRejection ==
  [][\A r \in Requests :
       (Handled(r) /\ ~requests[r].error.hasResponse)
       => /\ requests'[r].state = "rejected"
          /\ requests'[r].custom.errorCode = JSString("NETWORK_ERROR")
          /\ requests'[r].custom.message =
               (IF requests[r].error.message.t = "string"
                   /\ requests[r].error.message.v # ""
                THEN requests[r].error.message
                ELSE JSString(NetworkFallbackMessage))
          /\ href' = href]_vars

C3_Witness ==
  \E r, q \in Requests :
    /\ IsRejected(r)
    /\ requests[r].error = Failure(FALSE, 0, NoBody, TimeoutMessage)
    /\ requests[r].custom.errorCode = JSString("NETWORK_ERROR")
    /\ requests[r].custom.message = TimeoutMessage
    /\ IsRejected(q)
    /\ ~requests[q].error.hasResponse
    /\ requests[q].error.message = JSString("")
    /\ requests[q].custom.message = JSString(NetworkFallbackMessage)
    /\ href = "/app"

\* C4 as stated: with a response, errorCode is the body's errorCode field
\* whenever the body has that field, and is "UNKNOWN_ERROR" exactly when the
\* body has no errorCode field.
C4_Original ==
  \A r \in Requests :
    (IsRejected(r) /\ requests[r].error.hasResponse) =>
      LET data == requests[r].error.data
          has == data.kind = "object" /\ data.hasErrorCode
          code == requests[r].custom.errorCode IN
        /\ has => code = data.errorCode
        /\ (code = UnknownError) <=> ~has

\* C4 amended: with a response, errorCode is the body's errorCode field
\* whenever that field is present and truthy, and is "UNKNOWN_ERROR" whenever
\* the body has no errorCode field or the field is falsy ("", null, 0).
C4_Amended ==
  \A r \in Requests :
    (IsRejected(r) /\ requests[r].error.hasResponse) =>
      LET data == requests[r].error.data
          has == data.kind = "object" /\ data.hasErrorCode
          code == requests[r].custom.errorCode IN
        /\ (has /\ Truthy(data.errorCode)) => code = data.errorCode
        /\ (~has \/ ~Truthy(data.errorCode)) => code = UnknownError

C4_Witness ==
  \E r, q \in Requests :
    /\ IsRejected(r)
    /\ requests[r].error.data = CodedBody(JSString("VALIDATION_FAILED"))
    /\ requests[r].custom.errorCode = JSString("VALIDATION_FAILED")
    /\ IsRejected(q)
    /\ requests[q].error.data = CodedBody(JSString(""))
    /\ requests[q].custom.errorCode = UnknownError

\* C5: under any interleaving of in-flight requests, a failed request is
\* settled by exactly one rejection (never a success, never dropped, never
\* sent again), a successful response reaches the caller unchanged without
\* logging or navigation, and a settled request stays as it is.
C5_SurfacedExactlyOnce ==
  [][\A r \in Requests :
       /\ (requests[r].state = "failed" /\ requests'[r] # requests[r])
          => /\ requests'[r].state = "rejected"
             /\ requests'[r].settles = 1
             /\ requests'[r].sends = 1
             /\ requests'[r].error = requests[r].error
       /\ (requests[r].state = "responded" /\ requests'[r] # requests[r])
          => /\ requests'[r].state = "fulfilled"
             /\ requests'[r].settles = 1
             /\ requests'[r].sends = 1
             /\ requests'[r].returned = requests[r].response
             /\ console' = console
             /\ href' = href
       /\ requests[r].state \in {"rejected", "fulfilled"}
          => requests'[r] = requests[r]]_vars

C5_Witness ==
  \E r, q \in Requests :
    /\ IsRejected(r)
    /\ requests[r].settles = 1
    /\ requests[r].sends = 1
    /\ requests[q].state = "fulfilled"
    /\ requests[q].returned = requests[q].response
    /\ requests[q].settles = 1

\* --------------------------------------------- properties: base URL
Resolved == pc # "load"

Given == env.VITE_API_BASE_URL.defined /\ env.VITE_API_BASE_URL.chars # <<>>

Trimmed == Trim(env.VITE_API_BASE_URL.chars)

EndsWithSlash(s) == s # <<>> /\ s[Len(s)] = "/"

\* u is t with exactly one trailing slash removed, when t has one
DropsOneSlash(t, u) == IF EndsWithSlash(t) THEN u \o <<"/">> = t ELSE u = t

Diagnosed == \E i \in 1..Len(console) : console[i] = MissingConfig

\* C6: for an environment string that begins (after trimming) with http://
\* or https://, under either production flag, the base URL is the trimmed
\* string with exactly one trailing slash removed.
C6_ProtocolKeptOneSlashRemoved ==
  (Resolved /\ Given /\ (StartsWith(Trimmed, HTTP) \/ StartsWith(Trimmed, HTTPS)))
    => DropsOneSlash(Trimmed, baseURL)

C6_Witness ==
  /\ Resolved
  /\ env.PROD
  /\ env.VITE_API_BASE_URL = Str(ExampleWithSlash)
  /\ baseURL = SubSeq(ExampleWithSlash, 1, Len(ExampleWithSlash) - 1)

\* C7 as stated: for an environment string with a protocol, resolving the
\* resolved value again yields the same string.
C7_Original ==
  (Resolved /\ Given /\ (StartsWith(Trimmed, HTTP) \/ StartsWith(Trimmed, HTTPS)))
    => getBaseURL(Str(baseURL), env.PROD).url = baseURL

\* C7 amended: for an environment string with a protocol whose resolved
\* value ends neither in a slash nor in whitespace, resolving the resolved
\* value again yields the same string.
C7_Amended ==
  (/\ Resolved
   /\ Given
   /\ (StartsWith(Trimmed, HTTP) \/ StartsWith(Trimmed, HTTPS))
   /\ ~EndsWithSlash(baseURL)
   /\ baseURL[Len(baseURL)] \notin Whitespace)
    => getBaseURL(Str(baseURL), env.PROD).url = baseURL

C7_Witness ==
  /\ Resolved
  /\ Given
  /\ StartsWith(Trimmed, HTTP)
  /\ EndsWithSlash(Trimmed)
  /\ baseURL # env.VITE_API_BASE_URL.chars
  /\ ~EndsWithSlash(baseURL)
  /\ baseURL[Len(baseURL)] \notin Whitespace
  /\ getBaseURL(Str(baseURL), env.PROD).url = baseURL

\* C8: for a given environment string without a protocol, the base URL is
\* "https://" (production) or "http://" (otherwise) followed by the trimmed
\* string, with one trailing slash stripped, whatever the development flag.
C8_ProtocolPrefixed ==
  (/\ Resolved
   /\ Given
   /\ ~StartsWith(Trimmed, HTTP)
   /\ ~StartsWith(Trimmed, HTTPS))
    => DropsOneSlash((IF env.PROD THEN HTTPS ELSE HTTP) \o Trimmed, baseURL)

C8_Witness ==
  /\ Resolved
  /\ ~env.PROD
  /\ ~env.DEV
  /\ env.VITE_API_BASE_URL = Str(ExampleBare)
  /\ baseURL = HTTP \o ExampleBare

\* C9: with no environment string (undefined or empty), a production build
\* resolves to the empty string and logs the missing-configuration
\* diagnostic, any other build resolves to http://localhost:4000/api without
\* it; the diagnostic is logged in no other case.
C9_MissingConfiguration ==
  Resolved =>
    /\ (~Given /\ env.PROD) => (baseURL = <<>> /\ Diagnosed)
    /\ (~Given /\ ~env.PROD) => (baseURL = LOCALHOST /\ ~Diagnosed)
    /\ Diagnosed => (~Given /\ env.PROD)

C9_Witness ==
  /\ pc = "ready"
  /\ env.VITE_API_BASE_URL = Undefined
  /\ env.PROD
  /\ baseURL = <<>>
  /\ Diagnosed
  /\ options.baseURL = Undefined

\* C10: the resolved base URL is empty or begins with http:// or https://,
\* and it is empty only when no environment string is given in a production
\* build.
C10_WellFormedBaseURL ==
  Resolved =>
    /\ baseURL = <<>> \/ StartsWith(baseURL, HTTP) \/ StartsWith(baseURL, HTTPS)
    /\ baseURL = <<>> => (~Given /\ env.PROD)

====
